---- MODULE Spec2Model ----
(***************************************************************************)
(* A model of etabs' TexTable (src/etabs/tex_table.py) and TexTableCell    *)
(* (src/etabs/tex_table_cell.py): the grid of shared cell references, the  *)
(* growth operations add_row / add_col, merge, item assignment, the rule   *)
(* and partial-line annotations and render().                              *)
(*                                                                         *)
(* Python objects are records; the TexTableCell objects live in the heap   *)
(* `cells` (identity -> fields) and the grid `table` holds identities, so  *)
(* that two slots referencing one merged cell are distinguishable from two *)
(* slots referencing equal cells.  Text is a sequence of string tokens:    *)
(* the empty string is the empty sequence and "".join is concatenation.    *)
(* Sequences are 1-based here and 0-based in the source: grid slot (r, c)  *)
(* of the source is table[r + 1][c + 1].                                   *)
(***************************************************************************)
EXTENDS Integers, Sequences, FiniteSets, TLC

VARIABLES col_styles, seps, table, cells, _dependencies, _rules, _lines, result

vars == <<col_styles, seps, table, cells, _dependencies, _rules, _lines, result>>

(* ------------------------------ bounds -------------------------------- *)
\* the grid is explored up to MaxRows rows and MaxCols slots per row
MaxRows == 3
MaxCols == 3
\* at most MaxSlots grid slots in total
MaxSlots == 4
\* add_row / add_col are called with at most MaxValues values and a start
\* offset of at most MaxStart
MaxValues == 2
MaxStart == 1
\* at most MaxRules recorded rules and MaxLines recorded partial lines
MaxRules == 2
MaxLines == 2

(* ----------------------------- Python values -------------------------- *)
\* Optional[T]: None is the empty set, a present value x is {x}
None == {}
Some(x) == {x}
Get(o) == CHOOSE x \in o : TRUE

\* values handed to add_row / add_col, merge and item assignment
Values == {"a"}

\* constructor defaults of TexTable
empty_value == ""
centered == TRUE
caption == None
caption_after_table == FALSE
position == "h!"
star == FALSE
label == None
cmd == "figure"

\* [x] * n
Repeat(x, n) == [i \in 1..n |-> x]

(* ------------------------------ TexTableCell -------------------------- *)
TexTableCell(value, row, col, width, height, l_sep, r_sep) ==
    [raw_value |-> value, row |-> row, col |-> col, width |-> width,
     height |-> height, bold |-> FALSE, italic |-> FALSE,
     l_sep |-> l_sep, r_sep |-> r_sep]

\* (row0, col0, row1, col1), inclusive
bounds(cell) ==
    <<cell.row, cell.col, cell.row + cell.height - 1, cell.col + cell.width - 1>>

\* text is a sequence of tokens; the empty string is the empty sequence
Text(str) == IF str = "" THEN <<>> ELSE <<str>>

\* TexTableCell.styled_value
styled_value(cell) ==
    LET bolded == IF cell.bold THEN <<"\\textbf{">> \o Text(cell.raw_value) \o <<"}">>
                  ELSE Text(cell.raw_value)
    IN  IF cell.italic THEN <<"\\textit{">> \o bolded \o <<"}">> ELSE bolded

\* the two assertions that open __getitem__ and table_value
InCell(cell, row, col) ==
    /\ cell.row <= row /\ row < cell.row + cell.height
    /\ cell.col <= col /\ col < cell.col + cell.width

\* TexTableCell.__getitem__, past its assertions
cell_getitem(cell, row, col) ==
    IF cell.width = 1 /\ cell.height = 1 THEN styled_value(cell)
    ELSE IF row = cell.row /\ col = cell.col
    THEN LET col_style == Text(cell.l_sep) \o <<"c">> \o Text(cell.r_sep)
             ans1 == IF cell.height > 1
                     THEN <<"\\multirow{", ToString(cell.height), "}{*}{">>
                          \o styled_value(cell) \o <<"}">>
                     ELSE styled_value(cell)
         IN  IF cell.width > 1
             THEN <<"\\multicolumn{", ToString(cell.width), "}{">> \o col_style
                  \o <<"}{">> \o ans1 \o <<"}">>
             ELSE ans1
    ELSE <<>>

\* a separator behind every slot
appends_sep_always(cell, row, col) == TRUE

\* the condition under which table_value appends " & "
appends_sep(cell, row, col) == row # cell.row \/ col = cell.col + cell.width - 1

\* TexTableCell.table_value, past its assertions
table_value(cell, row, col) ==
    IF appends_sep(cell, row, col)
    THEN cell_getitem(cell, row, col) \o <<" & ">>
    ELSE cell_getitem(cell, row, col)

(* ------------------------------ the table ----------------------------- *)
\* the table's structural fields as one value, threaded through the nested
\* calls of add_row and add_col
State(cs, sp, tb, ce) == [col_styles |-> cs, seps |-> sp, table |-> tb, cells |-> ce]

col_count(S) == Len(S.col_styles)
row_count(S) == Len(S.table)

\* Operators take their arguments by name; x \in {e} evaluates e once and
\* binds x to its value.

\* identity of a newly constructed object: one no object of the heap has
NewId(ce) == IF DOMAIN ce = {} THEN 0
             ELSE (CHOOSE m \in DOMAIN ce : \A k \in DOMAIN ce : k <= m) + 1

\* the heap with the objects of `new` added
Alloc(ce, new) == [k \in DOMAIN ce \cup DOMAIN new |->
                      IF k \in DOMAIN new THEN new[k] ELSE ce[k]]

\* objects no grid slot references are unreachable
Live(tb) == UNION {{tb[r][c] : c \in 1..Len(tb[r])} : r \in 1..Len(tb)}

\* Identities are names: a heap and its renaming are the same Python state.
\* Collect drops the unreachable objects and names every other one after the
\* first slot, in row-major order, that references it.
FirstSlot(tb, id) ==
    LET own == UNION {{r * 1000 + c : c \in {d \in 1..Len(tb[r]) : tb[r][d] = id}} :
                      r \in 1..Len(tb)}
    IN  CHOOSE k \in own : \A m \in own : k <= m

Rename(S, name) ==
    [S EXCEPT !.table = [r \in 1..Len(S.table) |->
                           [c \in 1..Len(S.table[r]) |-> name[S.table[r][c]]]],
              !.cells = [k \in {name[id] : id \in DOMAIN name} |->
                           S.cells[CHOOSE id \in DOMAIN name : name[id] = k]]]

Collect(S) ==
    CHOOSE U \in UNION {{Rename(T, name) :
                            name \in {[id \in Live(T.table) |-> FirstSlot(T.table, id)]}} :
                        T \in {S}} : TRUE

RECURSIVE add_row(_, _, _), add_col(_, _, _)
RECURSIVE add_row_times(_, _), add_col_times(_, _)

\* self.table.append([TexTableCell(val, len(self.table), i, l_sep=self.seps[i],
\*                    r_sep=self.seps[i + 1]) for i, val in enumerate(_values)])
append_row(S, _values) ==
    LET base == NewId(S.cells)
        new  == [k \in base..(base + Len(_values) - 1) |->
                    TexTableCell(_values[k - base + 1], Len(S.table), k - base, 1, 1,
                                 S.seps[k - base + 1], S.seps[k - base + 2])]
    IN  [S EXCEPT !.table = Append(@, [i \in 1..Len(_values) |-> base + i - 1]),
                  !.cells = Alloc(@, new)]

\* the column's cells numbered by the column count, not by the row's length
append_col_by_count(S, _values) ==
    LET base == NewId(S.cells)
        new  == [k \in base..(base + Len(_values) - 1) |->
                    TexTableCell(_values[k - base + 1], k - base,
                                 col_count(S) - 1, 1, 1,
                                 S.seps[Len(S.seps) - 1], S.seps[Len(S.seps)])]
    IN  [S EXCEPT !.table = [r \in 1..Len(S.table) |->
                               IF r <= Len(_values) THEN Append(S.table[r], base + r - 1)
                               ELSE S.table[r]],
                  !.cells = Alloc(@, new)]

\* for i, val in enumerate(_values): self.table[i].append(TexTableCell(val, i,
\*     len(self.table[i]), l_sep=self.seps[-2], r_sep=self.seps[-1]))
append_col(S, _values) ==
    LET base == NewId(S.cells)
        new  == [k \in base..(base + Len(_values) - 1) |->
                    TexTableCell(_values[k - base + 1], k - base,
                                 Len(S.table[k - base + 1]), 1, 1,
                                 S.seps[Len(S.seps) - 1], S.seps[Len(S.seps)])]
    IN  [S EXCEPT !.table = [r \in 1..Len(S.table) |->
                               IF r <= Len(_values) THEN Append(S.table[r], base + r - 1)
                               ELSE S.table[r]],
                  !.cells = Alloc(@, new)]

\* for _ in range(n): self.add_col()
add_col_times(S, n) ==
    IF n <= 0 THEN S
    ELSE CHOOSE U \in {add_col_times(T, n - 1) : T \in {add_col(S, <<>>, 0)}} : TRUE

\* for _ in range(n): self.add_row()
add_row_times(S, n) ==
    IF n <= 0 THEN S
    ELSE CHOOSE U \in {add_row_times(T, n - 1) : T \in {add_row(S, <<>>, 0)}} : TRUE

\* TexTable.add_row(*values, start); prep is the identity
add_row(S, values, start) ==
    LET v0 == [i \in 1..Len(values) |->
                  IF values[i] # None THEN Get(values[i]) ELSE empty_value]
        v1 == IF start > 0 THEN Repeat(empty_value, start) \o v0 ELSE v0
        _values == IF Len(v1) < col_count(S)
                   THEN v1 \o Repeat(empty_value, col_count(S) - Len(v1))
                   ELSE v1
    IN  CHOOSE U \in {append_row(T, _values) :
                        T \in {IF Len(v1) > col_count(S)
                               THEN add_col_times(S, Len(v1) - col_count(S))
                               ELSE S}} : TRUE

\* TexTable.add_col(*values, start); prep is the identity, and str(None) is
\* the text "None"
add_col(S, values, start) ==
    LET S1 == [S EXCEPT !.col_styles = Append(@, "c"),
                        !.seps = IF Len(S.col_styles) + 1 = 1
                                 THEN Append(Append(@, ""), "")
                                 ELSE Append(@, "")]
        v0 == [i \in 1..Len(values) |->
                  IF values[i] # None THEN Get(values[i]) ELSE "None"]
        v1 == IF start > 0 THEN Repeat(empty_value, start) \o v0 ELSE v0
        _values == IF Len(v1) < row_count(S1)
                   THEN v1 \o Repeat(empty_value, row_count(S1) - Len(v1))
                   ELSE v1
    IN  CHOOSE U \in {append_col(T, _values) :
                        T \in {IF Len(v1) > row_count(S1)
                               THEN add_row_times(S1, Len(v1) - row_count(S1))
                               ELSE S1}} : TRUE

\* the outcome of a call: how it ended and the table it left
Outcome(status, msg, S, deps) == [status |-> status, msg |-> msg, S |-> S, deps |-> deps]

\* the test without its last clause: a cell reaching past the right edge passes
not_contained_ignoring_right(b, _row, _col, row, col, to_row, to_col) ==
    b[1] < _row \/ b[2] < col \/ b[3] > to_row

\* the test without its third clause: a cell reaching below the rectangle passes
not_contained_ignoring_bottom(b, _row, _col, row, col, to_row, to_col) ==
    b[1] < _row \/ b[2] < col \/ b[4] > to_col

\* the test merge makes of the cell at slot (_row, _col) of the rectangle
\* (row, col)..(to_row, to_col), b being the cell's bounds():
\* c_r0 < _row or c_c0 < col or c_r1 > to_row or c_c1 > to_col
not_contained(b, _row, _col, row, col, to_row, to_col) ==
    b[1] < _row \/ b[2] < col \/ b[3] > to_row \/ b[4] > to_col

\* TexTable.merge.  The three ValueError(...) expressions of lines 349-359
\* are built and dropped, never raised: they have no effect.
merge(S, deps, value, row, col, width, height, to_row, to_col) ==
    IF ~(0 <= row /\ row < Len(S.table))
    THEN Outcome("ValueError", "Invalid row index", S, deps)
    ELSE IF ~(0 <= col /\ col < col_count(S))
    THEN Outcome("ValueError", "Invalid column index", S, deps)
    ELSE IF to_row = None /\ height = None
    THEN Outcome("AssertionError", "", S, deps)
    ELSE IF to_col = None /\ width = None
    THEN Outcome("AssertionError", "", S, deps)
    ELSE
    LET to_row1 == IF to_row = None THEN row + Get(height) - 1 ELSE Get(to_row)
        height1 == IF to_row = None THEN Get(height) ELSE Get(to_row) - row + 1
        to_col1 == IF to_col = None THEN col + Get(width) - 1 ELSE Get(to_col)
        width1  == IF to_col = None THEN Get(width) ELSE Get(to_col) - col + 1
    IN
    IF ~(row <= to_row1 /\ to_row1 < Len(S.table))
    THEN Outcome("ValueError", "Invalid height", S, deps)
    ELSE IF ~(col <= to_col1 /\ to_col1 < col_count(S))
    THEN Outcome("ValueError", "Invalid width", S, deps)
    ELSE IF \E _row \in row..to_row1, _col \in col..to_col1 :
               not_contained(bounds(S.cells[S.table[_row + 1][_col + 1]]),
                             _row, _col, row, col, to_row1, to_col1)
    THEN Outcome("ValueError", "Invalid cell bounds", S, deps)
    ELSE
    LET new_cell == TexTableCell(value, row, col, width1, height1,
                                 S.seps[col + 1], S.seps[to_col1 + 2])
        id == NewId(S.cells)
    IN  Outcome("ok", "",
                [S EXCEPT !.cells = Alloc(@, [k \in {id} |-> new_cell]),
                          !.table = [r \in 1..Len(S.table) |->
                                       [c \in 1..Len(S.table[r]) |->
                                          IF /\ row <= r - 1 /\ r - 1 <= to_row1
                                             /\ col <= c - 1 /\ c - 1 <= to_col1
                                          THEN id ELSE S.table[r][c]]]],
                IF height1 > 1 THEN deps \cup {"multirow"} ELSE deps)

\* a Python index into a list of length n: -n..n-1 are valid, negative ones
\* counting from the end; None stands for IndexError
PyIndex(n, k) == IF 0 <= k /\ k < n THEN Some(k)
                 ELSE IF -n <= k /\ k < 0 THEN Some(n + k)
                 ELSE None

\* an index is an int or a slice (start and stop optional)
IntIdx(n) == [kind |-> "int", n |-> n]
Slice(start, stop) == [kind |-> "slice", start |-> start, stop |-> stop]

\* TexTable._get_indexing_bounds for int and slice indices
_get_indexing_bounds(S, i, j) ==
    LET row    == IF i.kind = "slice"
                  THEN (IF i.start # None THEN Get(i.start) ELSE 0)
                  ELSE i.n
        to_row == IF i.kind = "slice"
                  THEN (IF i.stop # None THEN Get(i.stop) - 1 ELSE Len(S.table) - 1)
                  ELSE i.n
        col    == IF j.kind = "slice"
                  THEN (IF j.start # None THEN Get(j.start) ELSE 0)
                  ELSE j.n
        to_col == IF j.kind = "slice"
                  THEN (IF j.stop # None THEN Get(j.stop) - 1 ELSE col_count(S) - 1)
                  ELSE j.n
    IN  <<row, col, to_row, to_col>>

\* TexTable.__setitem__
__setitem__(S, deps, i, j, value) ==
    IF i.kind = "int" /\ j.kind = "int"
    THEN LET r == PyIndex(Len(S.table), i.n)
         IN  IF r = None THEN Outcome("IndexError", "", S, deps)
             ELSE LET c == PyIndex(Len(S.table[Get(r) + 1]), j.n)
                  IN  IF c = None THEN Outcome("IndexError", "", S, deps)
                      ELSE Outcome("ok", "",
                                   [S EXCEPT !.cells[S.table[Get(r) + 1][Get(c) + 1]].raw_value
                                                 = value],
                                   deps)
    ELSE LET b == _get_indexing_bounds(S, i, j)
         IN  merge(S, deps, value, b[1], b[2], None, None, Some(b[3]), Some(b[4]))

\* what add_rule / add_cline / add_cmidrule leave
Noted(status, msg, deps, notes) == [status |-> status, msg |-> msg, deps |-> deps, notes |-> notes]

\* RuleType
RuleTypes == {"TOP", "MID", "BOTTOM"}

\* the row an annotation without a row is recorded for:
\* len(self.table) if row is None else row
default_row(S, row) == IF row = None THEN Len(S.table) ELSE Get(row)

\* TexTable.add_rule
add_rule(S, deps, rules, row, rule_type) ==
    IF rule_type \notin RuleTypes
    THEN Noted("ValueError", "Invalid rule type", deps \cup {"booktabs"}, rules)
    ELSE Noted("ok", "", deps \cup {"booktabs"},
               Append(rules, <<default_row(S, row),
                               IF rule_type = "TOP" THEN <<"\\toprule">>
                               ELSE IF rule_type = "MID" THEN <<"\\midrule">>
                               ELSE <<"\\bottomrule">> >>))

\* "".join(texts)
RECURSIVE Join(_)
Join(texts) == IF texts = <<>> THEN <<>> ELSE Head(texts) \o Join(Tail(texts))

\* str.removesuffix(" & ")
removesuffix(text) ==
    IF Len(text) > 0 /\ text[Len(text)] = " & " THEN SubSeq(text, 1, Len(text) - 1)
    ELSE text

\* str.strip() of a text whose blanks are tokens of their own
RECURSIVE strip(_)
strip(text) ==
    IF text = <<>> THEN text
    ELSE IF Head(text) = " " THEN strip(Tail(text))
    ELSE IF text[Len(text)] = " " THEN strip(SubSeq(text, 1, Len(text) - 1))
    ELSE text

\* TexTable.add_cline
add_cline(S, deps, lines, row, from_col, to_col) ==
    LET to_col1 == IF to_col = None THEN col_count(S) - 1 ELSE Get(to_col)
        line == <<"\\cline{", ToString(from_col + 1), "-", ToString(to_col1 + 1), "}", " ">>
    IN  Noted("ok", "", deps \cup {"booktabs"},
              Append(lines, <<default_row(S, row), strip(line)>>))

\* TexTable.add_cmidrule
add_cmidrule(S, deps, lines, row, from_col, to_col, options) ==
    LET to_col1 == IF to_col = None THEN col_count(S) - 1 ELSE Get(to_col)
        line == <<"\\cmidrule(", options, "){", ToString(from_col + 1), "-",
                  ToString(to_col1 + 1), "}", " ">>
    IN  Noted("ok", "", deps \cup {"booktabs"},
              Append(lines, <<default_row(S, row), strip(line)>>))

\* list.insert(index, x) for index >= 0: past the end it appends
insert(list, index, x) ==
    IF index >= Len(list) THEN Append(list, x)
    ELSE SubSeq(list, 1, index) \o <<x>> \o SubSeq(list, index + 1, Len(list))

\* _texcmd(cmd, body, opts, args): a list of lines
_texcmd(command, body, opts, args) ==
    <<(<<"\\begin{", command, "}">>
       \o (IF opts # None THEN <<"[", Get(opts), "]">> ELSE <<>>)
       \o (IF args # None THEN <<"{">> \o Get(args) \o <<"}">> ELSE <<>>))>>
    \o [i \in 1..Len(body) |-> <<"    ">> \o body[i]]
    \o <<(<<"\\end{", command, "}">>)>>

\* TexTable._str_col_sty; zip stops at the shorter list
_str_col_sty(S) ==
    Join([i \in 1..(IF Len(S.seps) < Len(S.col_styles) THEN Len(S.seps)
                    ELSE Len(S.col_styles)) |->
             Text(S.seps[i]) \o Text(S.col_styles[i])])
    \o Text(S.seps[Len(S.seps)])

\* the rows of lines 420-426: one text per grid row
body_rows(S) ==
    [r \in 1..Len(S.table) |->
        removesuffix(Join([c \in 1..Len(S.table[r]) |->
                              table_value(S.cells[S.table[r][c]], r - 1, c - 1)]))
        \o <<" \\\\">>]

\* the loop taking the recorded lines last to first: the line recorded first
\* ends leftmost
RECURSIVE add_top_lines_last_first(_, _, _)
add_top_lines_last_first(rows, lines, k) ==
    IF k > Len(lines) THEN Some(rows)
    ELSE LET line == lines[Len(lines) + 1 - k]
         IN  IF ~(0 <= line[1] /\ line[1] < Len(rows)) THEN None
             ELSE add_top_lines_last_first(
                      [rows EXCEPT ![line[1] + 1] = line[2] \o <<" ">> \o @], lines, k + 1)

\* lines 429-432, from the k-th recorded line on: None stands for the
\* ValueError of line 431
RECURSIVE add_top_lines(_, _, _)
add_top_lines(rows, lines, k) ==
    IF k > Len(lines) THEN Some(rows)
    ELSE IF ~(0 <= lines[k][1] /\ lines[k][1] < Len(rows)) THEN None
    ELSE add_top_lines([rows EXCEPT ![lines[k][1] + 1] = lines[k][2] \o <<" ">> \o @],
                       lines, k + 1)

\* the key of self._rules.sort(key=lambda x: x[0])
sort_key(rule) == rule[1]

\* list.sort is stable: insertion sort, each rule going behind the rules whose
\* key is not larger
RECURSIVE sorted(_)
sorted(rules) ==
    IF rules = <<>> THEN rules
    ELSE LET rest == sorted(SubSeq(rules, 1, Len(rules) - 1))
             last == rules[Len(rules)]
             n    == Cardinality({i \in 1..Len(rest) : sort_key(rest[i]) <= sort_key(last)})
         IN  SubSeq(rest, 1, n) \o <<last>> \o SubSeq(rest, n + 1, Len(rest))

\* the index without the count of the rules already inserted
rule_position_without_offset(i, added) == i

\* the index line 440 inserts at
rule_position(i, added) == i + added

\* lines 436-440, from the rule at index `added` on: None stands for the
\* ValueError of line 439
RECURSIVE add_rules(_, _, _)
add_rules(rows, rules, added) ==
    IF added >= Len(rules) THEN Some(rows)
    ELSE IF ~(0 <= rules[added + 1][1] /\ rules[added + 1][1] < Len(rows)) THEN None
    ELSE add_rules(insert(rows, rule_position(rules[added + 1][1], added),
                          rules[added + 1][2]),
                   rules, added + 1)

\* what render() leaves: how it ended, self._rules and the text returned
Rendered(status, msg, rules, out) ==
    [status |-> status, msg |-> msg, rules |-> rules, out |-> out]

\* TexTable.render, the text returned being the list of lines that
\* "\n".join receives
render(S, rules, lines) ==
    IF \E r \in 1..Len(S.table) : \E c \in 1..Len(S.table[r]) :
          ~InCell(S.cells[S.table[r][c]], r - 1, c - 1)
    THEN Rendered("AssertionError", "out of bounds", rules, <<>>)
    ELSE
    LET rows1 == add_top_lines(body_rows(S), lines, 1)
    IN
    IF rows1 = None THEN Rendered("ValueError", "Invalid line index", rules, <<>>)
    ELSE
    LET rows2 == add_rules(Get(rows1), sorted(rules), 0)
    IN
    IF rows2 = None THEN Rendered("ValueError", "Invalid rule index", sorted(rules), <<>>)
    ELSE
    LET caption_line == IF caption # None /\ Get(caption) # ""
                        THEN <<"\\caption{", Get(caption), "}">> ELSE <<>>
    IN
    IF label # None /\ caption = None
    THEN Rendered("ValueError", "Cannot have a label without a caption", sorted(rules), <<>>)
    ELSE IF Len(S.seps) = 0
    THEN Rendered("IndexError", "", sorted(rules), <<>>)
    ELSE
    Rendered("ok", "", sorted(rules),
             _texcmd(cmd \o (IF star THEN "*" ELSE ""),
                     <<(IF centered THEN <<"\\centering">> ELSE <<>>)>>
                     \o <<(IF ~caption_after_table
                           THEN caption_line \o (IF label # None
                                                 THEN <<"\\label{", Get(label), "}">>
                                                 ELSE <<>>)
                           ELSE <<>>)>>
                     \o _texcmd("tabular", Get(rows2), None, Some(_str_col_sty(S)))
                     \o <<(IF caption_after_table
                           THEN caption_line \o (IF label # None
                                                 THEN <<"\\label{", Get(label), "}">>
                                                 ELSE <<>>)
                           ELSE <<>>)>>,
                     Some(position), None))

(* ------------------------------ the run ------------------------------- *)
\* TexTable.__init__
Init ==
    /\ col_styles = <<>>
    /\ seps = <<>>
    /\ table = <<>>
    /\ cells = <<>>
    /\ _dependencies = {}
    /\ _rules = <<>>
    /\ _lines = <<>>
    /\ result = [op |-> "__init__", status |-> "ok", msg |-> ""]

Cur == State(col_styles, seps, table, cells)

\* a raised exception propagates to the caller and ends the run
Running == result.status = "ok"

RECURSIVE Slots(_, _)
Slots(tb, r) == IF r > Len(tb) THEN 0 ELSE Len(tb[r]) + Slots(tb, r + 1)

\* the part of the grids that is explored
InBounds(S) ==
    /\ Len(S.table) <= MaxRows
    /\ col_count(S) <= MaxCols
    /\ \A r \in 1..Len(S.table) : Len(S.table[r]) <= MaxCols
    /\ Slots(S.table, 1) <= MaxSlots

Install(S) ==
    \E T \in {Collect(S)} :
        /\ col_styles' = T.col_styles
        /\ seps' = T.seps
        /\ table' = T.table
        /\ cells' = T.cells

ArgValues == {Some(v) : v \in Values}

AddRow ==
    /\ Running
    /\ \E n \in 0..MaxValues : \E values \in [1..n -> ArgValues], start \in 0..MaxStart :
          \E S \in {add_row(Cur, values, start)} :
              /\ InBounds(S)
              /\ Install(S)
              /\ result' = [op |-> "add_row", status |-> "ok", msg |-> ""]
    /\ UNCHANGED <<_dependencies, _rules, _lines>>

AddCol ==
    /\ Running
    /\ \E n \in 0..MaxValues : \E values \in [1..n -> ArgValues], start \in 0..MaxStart :
          \E S \in {add_col(Cur, values, start)} :
              /\ InBounds(S)
              /\ Install(S)
              /\ result' = [op |-> "add_col", status |-> "ok", msg |-> ""]
    /\ UNCHANGED <<_dependencies, _rules, _lines>>

MergeArgs(value, row, col, width, height, to_row, to_col) ==
    [value |-> value, row |-> row, col |-> col, width |-> width, height |-> height,
     to_row |-> to_row, to_col |-> to_col]

MergeCall(a) ==
    \E o \in {merge(Cur, _dependencies, a.value, a.row, a.col, a.width, a.height,
                     a.to_row, a.to_col)} :
        /\ Running
        /\ Install(o.S)
        /\ _dependencies' = o.deps
        /\ result' = [op |-> "merge", status |-> o.status, msg |-> o.msg, args |-> a]
        /\ UNCHANGED <<_rules, _lines>>

\* merge(value, row, col, width=w, height=h), with every index and size that
\* fits the current grid and the first that does not
Merge ==
    \E value \in Values, row \in 0..Len(table), col \in 0..Len(col_styles),
       width \in 1..Len(col_styles) + 1, height \in 1..Len(table) + 1 :
       MergeCall(MergeArgs(value, row, col, Some(width), Some(height), None, None))

\* the ints -1..n and the slices [a:b], [a:], [:b], [:] within 0..n
Indices(n) == {IntIdx(k) : k \in -1..n}
              \cup {Slice(a, b) : a \in {None} \cup {Some(k) : k \in 0..n - 1},
                                 b \in {None} \cup {Some(k) : k \in 1..n}}

\* table[i, j] = value
SetItem ==
    /\ Running
    /\ \E i \in Indices(Len(table)), j \in Indices(Len(col_styles)), value \in Values :
          \E o \in {__setitem__(Cur, _dependencies, i, j, value)} :
              /\ Install(o.S)
              /\ _dependencies' = o.deps
              /\ result' = [op |-> "__setitem__", status |-> o.status, msg |-> o.msg]
    /\ UNCHANGED <<_rules, _lines>>

\* render()
Render ==
    /\ Running
    /\ \E o \in {render(Cur, _rules, _lines)} :
          /\ _rules' = o.rules
          /\ result' = [op |-> "render", status |-> o.status, msg |-> o.msg, out |-> o.out]
    /\ UNCHANGED <<col_styles, seps, table, cells, _dependencies, _lines>>

Next == AddRow \/ AddCol \/ Merge \/ SetItem \/ Render

(* ---------------------- runs that record rules ------------------------ *)
\* add_row("a") ... : the tables of one column
AddOneRow ==
    /\ Running
    /\ \E value \in Values :
          \E S \in {add_row(Cur, <<Some(value)>>, 0)} :
              /\ InBounds(S)
              /\ Install(S)
              /\ result' = [op |-> "add_row", status |-> "ok", msg |-> ""]
    /\ UNCHANGED <<_dependencies, _rules, _lines>>

\* the rows an annotation is asked for: none, a row of the grid, or the
\* index before the first or behind the last
NoteRows == {None} \cup {Some(r) : r \in -1..MaxRows}

\* add_rule(row, rule_type)
AddRule ==
    /\ Running
    /\ Len(_rules) < MaxRules
    /\ \E row \in NoteRows, rule_type \in RuleTypes :
          \E o \in {add_rule(Cur, _dependencies, _rules, row, rule_type)} :
              /\ _rules' = o.notes
              /\ _dependencies' = o.deps
              /\ result' = [op |-> "add_rule", status |-> o.status, msg |-> o.msg,
                            args |-> [row |-> row, rule_type |-> rule_type]]
    /\ UNCHANGED <<col_styles, seps, table, cells, _lines>>

\* add_cline(row)
AddCline ==
    /\ Running
    /\ Len(_lines) < MaxLines
    /\ \E row \in NoteRows :
          \E o \in {add_cline(Cur, _dependencies, _lines, row, 0, None)} :
              /\ _lines' = o.notes
              /\ _dependencies' = o.deps
              /\ result' = [op |-> "add_cline", status |-> o.status, msg |-> o.msg]
    /\ UNCHANGED <<col_styles, seps, table, cells, _rules>>

\* add_cmidrule(row)
AddCmidrule ==
    /\ Running
    /\ Len(_lines) < MaxLines
    /\ \E row \in NoteRows :
          \E o \in {add_cmidrule(Cur, _dependencies, _lines, row, 0, None, "lr")} :
              /\ _lines' = o.notes
              /\ _dependencies' = o.deps
              /\ result' = [op |-> "add_cmidrule", status |-> o.status, msg |-> o.msg]
    /\ UNCHANGED <<col_styles, seps, table, cells, _rules>>

NextRules == AddOneRow \/ AddRule \/ Render

SpecRules == Init /\ [][NextRules]_vars

NextLines == AddOneRow \/ AddCline \/ AddCmidrule \/ Render

SpecLines == Init /\ [][NextLines]_vars

Spec == Init /\ [][Next]_vars

(* --------------- runs that call merge in every form ------------------- *)
\* an optional int that fits 0..n, or the first that does not
Optional(lo, hi) == {None} \cup {Some(k) : k \in lo..hi}

\* merge(value, row, col, width, height, to_row, to_col), each of the four
\* sizes and ends given or left out
MergeAny ==
    \E value \in Values, row \in 0..Len(table), col \in 0..Len(col_styles),
       width \in Optional(1, Len(col_styles) + 1), height \in Optional(1, Len(table) + 1),
       to_row \in Optional(0, Len(table)), to_col \in Optional(0, Len(col_styles)) :
       MergeCall(MergeArgs(value, row, col, width, height, to_row, to_col))

NextArgs == AddOneRow \/ MergeAny

SpecArgs == Init /\ [][NextArgs]_vars

(* ============================ properties ============================== *)
\* the slots of the grid, 0-based as in the source
GridSlots(tb) == UNION {{<<r - 1, c - 1>> : c \in 1..Len(tb[r])} : r \in 1..Len(tb)}

\* the object slot p references
Ref(tb, p) == tb[p[1] + 1][p[2] + 1]

\* the rectangle a merge call resolves to: (row, col, to_row, to_col)
Rect(a) == <<a.row, a.col,
             IF a.to_row # None THEN Get(a.to_row) ELSE a.row + Get(a.height) - 1,
             IF a.to_col # None THEN Get(a.to_col) ELSE a.col + Get(a.width) - 1>>

InRect(p, R) == R[1] <= p[1] /\ p[1] <= R[3] /\ R[2] <= p[2] /\ p[2] <= R[4]

\* rectangle b lies inside rectangle R
Inside(b, R) == R[1] <= b[1] /\ R[2] <= b[2] /\ b[3] <= R[3] /\ b[4] <= R[4]

\* R is a rectangle of the grid: row and col in range, and the ends too
ValidRect(tb, ncols, R) ==
    /\ 0 <= R[1] /\ R[1] <= R[3] /\ R[3] < Len(tb)
    /\ 0 <= R[2] /\ R[2] <= R[4] /\ R[4] < ncols

\* the object extends outside R: by its bounds, or by a slot that references it
ExtendsOutside(tb, ce, id, R) ==
    \/ ~Inside(bounds(ce[id]), R)
    \/ \E q \in GridSlots(tb) : Ref(tb, q) = id /\ ~InRect(q, R)

\* some cell with a slot inside R extends outside R
PartialOverlap(tb, ce, R) ==
    \E p \in GridSlots(tb) : InRect(p, R) /\ ExtendsOutside(tb, ce, Ref(tb, p), R)

Failed(res) == res.status # "ok"

\* the table, its cells and the dependency set
structure == <<col_styles, seps, table, cells, _dependencies>>

\* C1: after any sequence of add_row and add_col calls every grid row has
\* the same length, and that length is col_count.
C1_RowsHaveColCount ==
    \A r \in 1..Len(table) : Len(table[r]) = Len(col_styles)

\* C2: a merge whose rectangle holds a slot of a cell that also extends
\* outside the rectangle fails, and a failed merge leaves the grid, every
\* cell and the dependency set as they were.
C2_PartialOverlapFails ==
    [][result'.op = "merge" =>
          /\ PartialOverlap(table, cells, Rect(result'.args)) => Failed(result')
          /\ Failed(result') => UNCHANGED structure]_vars

\* a merge has failed on a rectangle of the grid that cuts through a merged cell
C2_Witness ==
    /\ result.op = "merge"
    /\ result.status = "ValueError"
    /\ result.msg = "Invalid cell bounds"
    /\ ValidRect(table, Len(col_styles), Rect(result.args))
    /\ PartialOverlap(table, cells, Rect(result.args))

\* the previous call merged rectangle R1 and this call is a merge as well
MergeAfterMerge == result.op = "merge" /\ result.status = "ok" /\ result'.op = "merge"

\* rectangle R2 lies strictly inside rectangle R1
StrictlyInside(R2, R1) == Inside(R2, R1) /\ R2 # R1

MergedInto(a, R) ==
    /\ \A p \in GridSlots(table') :
          InRect(p, R) <=> Ref(table', p) = Ref(table', <<R[1], R[2]>>)
    /\ bounds(cells'[Ref(table', <<R[1], R[2]>>)]) = R
    /\ cells'[Ref(table', <<R[1], R[2]>>)].raw_value = a.value
    /\ GridSlots(table') = GridSlots(table)
    /\ \A p \in GridSlots(table) :
          ~InRect(p, R) =>
             /\ cells'[Ref(table', p)] = cells[Ref(table, p)]
             /\ \A q \in GridSlots(table) :
                   ~InRect(q, R) =>
                      ((Ref(table', p) = Ref(table', q)) <=> (Ref(table, p) = Ref(table, q)))

\* C4: a merge succeeds whenever its rectangle is a rectangle of the grid
\* and no cell with a slot in it extends outside it; a successful merge
\* leaves one new cell on every slot of the rectangle, with the rectangle
\* as bounds and the given value, and changes no slot outside.
C4_ContainedCellsMerge ==
    [][result'.op = "merge" =>
          /\ (ValidRect(table, Len(col_styles), Rect(result'.args))
              /\ ~PartialOverlap(table, cells, Rect(result'.args)))
                => result'.status = "ok"
          /\ result'.status = "ok" => MergedInto(result'.args, Rect(result'.args))]_vars

\* the call gives a size and an end for the same axis
Conflicting(a) == (a.width # None /\ a.to_col # None) \/ (a.height # None /\ a.to_row # None)

\* C5: a merge given both width and to_col, or both height and to_row,
\* fails and changes nothing.
C5_ConflictingArgsFail ==
    [][(result'.op = "merge" /\ Conflicting(result'.args))
       => (Failed(result') /\ UNCHANGED structure)]_vars

\* the lines of the tabular environment's body, without their indentation
TabularBody(out) ==
    LET b == CHOOSE i \in 1..Len(out) :
                 Len(out[i]) > 2 /\ out[i][2] = "\\begin{" /\ out[i][3] = "tabular"
        e == CHOOSE i \in 1..Len(out) : out[i] = <<"    ", "\\end{", "tabular", "}">>
    IN  [k \in 1..(e - b - 1) |-> SubSeq(out[b + k], 3, Len(out[b + k]))]

\* every rule recorded before this one is for a row of the grid
RulesInRange(rules, n) == \A k \in 1..Len(rules) : 0 <= rules[k][1] /\ rules[k][1] < n

\* C6: on a table of 3 rows, add_rule(row=None, BOTTOM) and then render()
\* succeeds and the bottom rule is the last line of the tabular body.
C6_BottomRuleLast ==
    [][(/\ result.op = "add_rule"
        /\ result.args = [row |-> None, rule_type |-> "BOTTOM"]
        /\ Len(table) = 3
        /\ RulesInRange(SubSeq(_rules, 1, Len(_rules) - 1), Len(table))
        /\ result'.op = "render")
       => /\ result'.status = "ok"
          /\ TabularBody(result'.out)[Len(TabularBody(result'.out))] = <<"\\bottomrule">>]_vars

\* the number of tokens of `text` that are `token`
Count(text, token) == Cardinality({i \in 1..Len(text) : text[i] = token})

\* the columns a rendered row accounts for: one more than its separators,
\* and width - 1 more for every \multicolumn{width}
Columns(text) ==
    LET spans == {i \in 1..Len(text) : text[i] = "\\multicolumn{"}
        width(i) == CHOOSE w \in 1..(Len(col_styles) + 1) : ToString(w) = text[i + 1]
        RECURSIVE Extra(_)
        Extra(I) == IF I = {} THEN 0
                    ELSE LET i == CHOOSE j \in I : TRUE
                         IN  width(i) - 1 + Extra(I \ {i})
    IN  Count(text, " & ") + 1 + Extra(spans)

\* the table of one row and three columns whose first two slots are merged
OneRowMerged ==
    /\ Len(table) = 1 /\ Len(col_styles) = 3 /\ Len(table[1]) = 3
    /\ table[1][1] = table[1][2] /\ table[1][3] # table[1][1]
    /\ bounds(cells[table[1][1]]) = <<0, 0, 0, 1>>

\* C7: when every row has col_count slots, every rendered row accounts for
\* col_count columns; the row of OneRowMerged is one multicolumn cell, one
\* separator and the third cell.
C7_RowsAccountForColumns ==
    (result.op = "render" /\ result.status = "ok" /\ C1_RowsHaveColCount)
    => /\ Len(TabularBody(result.out)) = Len(table)
       /\ \A r \in 1..Len(table) : Columns(TabularBody(result.out)[r]) = Len(col_styles)
       /\ OneRowMerged =>
             TabularBody(result.out)[1] =
                <<"\\multicolumn{", "2", "}{", "c", "}{">>
                \o Text(cells[table[1][1]].raw_value) \o <<"}", " & ">>
                \o Text(cells[table[1][3]].raw_value) \o <<" \\\\">>

\* the table of OneRowMerged has been rendered
C7_Witness == result.op = "render" /\ result.status = "ok" /\ OneRowMerged

\* C8: render() fails whenever a recorded rule or partial line is for an
\* index outside [0, row_count).
C8_OutOfRangeFails ==
    (result.op = "render" /\ (~RulesInRange(_rules, Len(table)) \/ ~RulesInRange(_lines, Len(table))))
    => Failed(result)

\* C9: every slot references a cell whose bounds contain the slot, every
\* slot inside a cell's bounds references that cell, and render() never
\* fails the cell's out-of-bounds assertion.
C9_SlotsMatchBounds ==
    /\ \A p \in GridSlots(table) :
          LET b == bounds(cells[Ref(table, p)])
          IN  /\ InRect(p, b)
              /\ \A r \in b[1]..b[3], c \in b[2]..b[4] :
                    /\ <<r, c>> \in GridSlots(table)
                    /\ Ref(table, <<r, c>>) = Ref(table, p)
    /\ result.op = "render" => result.status # "AssertionError"

\* a table with a cell merged over two rows and two columns has been rendered
C9_Witness ==
    /\ result.op = "render"
    /\ result.status = "ok"
    /\ \E id \in DOMAIN cells : cells[id].width > 1 /\ cells[id].height > 1

\* the rules for row r, in the order of the list
RulesFor(rules, r) ==
    LET idx == {k \in 1..Len(rules) : rules[k][1] = r}
        RECURSIVE InOrder(_)
        InOrder(I) == IF I = {} THEN <<>>
                      ELSE LET k == CHOOSE j \in I : \A m \in I : j <= m
                           IN  <<rules[k][2]>> \o InOrder(I \ {k})
    IN  InOrder(idx)

\* rows r.. of the grid, each below the rules for it
RECURSIVE RuledRows(_, _, _)
RuledRows(rows, rules, r) ==
    IF r > Len(rows) THEN <<>>
    ELSE RulesFor(rules, r - 1) \o <<rows[r]>> \o RuledRows(rows, rules, r + 1)

\* C10: when every rule is for a row of the grid, render() puts the rules
\* for row r directly above row r, in the order they were added, and keeps
\* the rows in their order.
C10_RulesAboveTheirRow ==
    [][(result'.op = "render" /\ Len(_rules) > 0 /\ RulesInRange(_rules, Len(table)))
       => /\ result'.status = "ok"
          /\ TabularBody(result'.out) = RuledRows(body_rows(Cur), _rules, 1)]_vars

\* two different rules for one row have been rendered
C10_Witness ==
    /\ result.op = "render"
    /\ result.status = "ok"
    /\ Len(_rules) = 2
    /\ _rules[1][1] = _rules[2][1]
    /\ _rules[1][2] # _rules[2][2]

\* the lines recorded for row r from the k-th on, each followed by a blank,
\* the one recorded first leftmost
RECURSIVE InRegistrationOrder(_, _, _)
InRegistrationOrder(lines, r, k) ==
    IF k > Len(lines) THEN <<>>
    ELSE (IF lines[k][1] = r THEN lines[k][2] \o <<" ">> ELSE <<>>)
         \o InRegistrationOrder(lines, r, k + 1)

\* the same lines, the one recorded last leftmost
RECURSIVE InReverseOrder(_, _, _)
InReverseOrder(lines, r, k) ==
    IF k > Len(lines) THEN <<>>
    ELSE InReverseOrder(lines, r, k + 1)
         \o (IF lines[k][1] = r THEN lines[k][2] \o <<" ">> ELSE <<>>)

\* a render of a table with partial lines, all for rows of the grid
RendersLines ==
    result'.op = "render" /\ Len(_lines) > 0 /\ RulesInRange(_lines, Len(table))

\* C11 as stated: the partial lines recorded for a row are put before the
\* row's text, space-joined, in registration order: the line recorded first
\* is leftmost.
C11_LinesInRegistrationOrder ==
    [][RendersLines
       => /\ result'.status = "ok"
          /\ \A r \in 1..Len(table) :
                TabularBody(result'.out)[r]
                   = InRegistrationOrder(_lines, r - 1, 1) \o body_rows(Cur)[r]]_vars

\* C11 amended: the partial lines recorded for a row are put before the
\* row's text, space-joined, in reverse registration order: the line
\* recorded last is leftmost, the one recorded first is next to the row's
\* content.
C11_LinesInReverseOrder ==
    [][RendersLines
       => /\ result'.status = "ok"
          /\ \A r \in 1..Len(table) :
                TabularBody(result'.out)[r]
                   = InReverseOrder(_lines, r - 1, 1) \o body_rows(Cur)[r]]_vars

\* a table with two different partial lines for one row has been rendered
C11_Witness ==
    /\ result.op = "render"
    /\ result.status = "ok"
    /\ Len(_lines) = 2
    /\ _lines[1][1] = _lines[2][1]
    /\ _lines[1][2] # _lines[2][2]

====
